---------------------------- MODULE Spec2Model ----------------------------
(* Model of the resume extraction-and-streaming pipeline:                  *)
(*   backend/utils/ai_parser.py  extract_data_from_text,                    *)
(*                               add_prompt_variation,                      *)
(*                               get_default_resume_structure,              *)
(*                               stream_resume_processing                   *)
(*   backend/main.py             generate_stream (the SSE framing)          *)
(*                                                                          *)
(* One run = one request: the response writer pulls frames out of           *)
(* generate_stream, which pulls events out of stream_resume_processing.     *)
(* Every action is one resumption of that generator chain up to its next    *)
(* suspension point (a yield, or the await on the completion service).      *)
(* Event timestamps (datetime.now().isoformat()) are left out of the        *)
(* events: nothing in the pipeline reads them back.                         *)
EXTENDS Integers, Sequences, FiniteSets, TLC

VARIABLES
    text,              \* extracted_text, the input of the run
    pc,                \* where stream_resume_processing is suspended
    gpc,               \* where generate_stream is suspended
    sections,          \* result of chunk_resume_from_bold_headings
    prompts,           \* calls of add_prompt_variation made so far
    svcCalls,          \* number of client.chat.completions.create calls
    response,          \* what the completion service answered
    extracted,         \* "pending" | "returned" | "raised"
    full_resume_data,  \* the local of stream_resume_processing
    events,            \* events yielded by stream_resume_processing
    frames,            \* frames yielded by generate_stream
    uploads,           \* per request: the uploaded file (filename, content)
    tmp,               \* the files under /tmp: path -> writer and content
    epc,               \* per request: where the endpoint handler is
    extracted_text,    \* per request: the handler's local extracted_text
    http_status,       \* per request: status of the response, 0 while none
    fileReads,         \* per request: whose writes its file reads returned
    st,                \* per request: the state of its stream
    heap               \* the dicts handed out by extract_data_from_text

endpointVars == <<uploads, tmp, epc, extracted_text, http_status, fileReads,
                  st, heap>>

vars == <<text, pc, gpc, sections, prompts, svcCalls, response, extracted,
          full_resume_data, events, frames, endpointVars>>

--------------------------------------------------------------------------
(* Bounds *)

MaxLines == 2      \* lines of the input text
IdLen == 2         \* length of the random suffix (13 in the code)
MaxCalls == 2      \* calls of add_prompt_variation in SpecCB
NumRequests == 2   \* requests at the endpoint in SpecEP

--------------------------------------------------------------------------
(* Python values: a value is a record [t, s, v]: its type, its scalar      *)
(* content (strings) and its items (dicts: a function from keys).          *)

PyStr(str) == [t |-> "str", s |-> str, v |-> <<>>]
PyList == [t |-> "list", s |-> "", v |-> <<>>]
PyNone == [t |-> "none", s |-> "", v |-> <<>>]
PyDict(items) == [t |-> "dict", s |-> "", v |-> items]
Unbound == [t |-> "unbound", s |-> "", v |-> <<>>]

get_default_resume_structure ==
    PyDict([name |-> PyStr(""),
            title |-> PyStr(""),
            requisitionNumber |-> PyStr(""),
            professionalSummary |-> PyList,
            summarySections |-> PyList,
            employmentHistory |-> PyList,
            education |-> PyList,
            certifications |-> PyList,
            technicalSkills |-> PyDict(<<>>),
            skillCategories |-> PyList])

\* "required" of the parse_resume function schema
RequiredKeys == {"name", "professionalSummary", "employmentHistory"}

--------------------------------------------------------------------------
(* json.loads on the tool call's arguments. A JSON text is a sequence of  *)
(* tokens: punctuation, string literals, the literals [] and null, and    *)
(* bare words (which are not JSON). Objects are flat: member values are   *)
(* strings, [] or null.                                                   *)

Punct(c) == [tok |-> "punct", s |-> c]
Str(c) == [tok |-> "str", s |-> c]
Lit(c) == [tok |-> "lit", s |-> c]
Word(c) == [tok |-> "word", s |-> c]

LBrace == Punct("{")
RBrace == Punct("}")
Colon == Punct(":")
Comma == Punct(",")

IsValueTok(tk) == tk.tok = "str" \/ (tk.tok = "lit" /\ tk.s \in {"[]", "null"})

ValueOf(tk) ==
    IF tk.tok = "str" THEN PyStr(tk.s)
    ELSE IF tk.s = "[]" THEN PyList ELSE PyNone

JSONDecodeError == [ok |-> FALSE, value |-> Unbound]
Parsed(val) == [ok |-> TRUE, value |-> val]

DictPut(items, k, val) ==
    [x \in (DOMAIN items) \cup {k} |-> IF x = k THEN val ELSE items[x]]

RECURSIVE parse_members(_, _)
parse_members(toks, items) ==
    IF Len(toks) < 3 THEN JSONDecodeError
    ELSE IF toks[1].tok # "str" \/ toks[2] # Colon \/ ~IsValueTok(toks[3])
    THEN JSONDecodeError
    ELSE LET items2 == DictPut(items, toks[1].s, ValueOf(toks[3])) IN
         IF Len(toks) = 3 THEN Parsed(PyDict(items2))
         ELSE IF toks[4] = Comma
         THEN parse_members(SubSeq(toks, 5, Len(toks)), items2)
         ELSE JSONDecodeError

json_loads(toks) ==
    IF Len(toks) = 0 THEN JSONDecodeError
    ELSE IF Len(toks) = 1
    THEN IF IsValueTok(toks[1]) THEN Parsed(ValueOf(toks[1])) ELSE JSONDecodeError
    ELSE IF toks[1] = LBrace /\ toks[Len(toks)] = RBrace
    THEN IF Len(toks) = 2 THEN Parsed(PyDict(<<>>))
         ELSE parse_members(SubSeq(toks, 2, Len(toks) - 1), <<>>)
    ELSE JSONDecodeError

--------------------------------------------------------------------------
(* What the completion service may answer to one call.                     *)

FullArguments ==
    <<LBrace, Str("name"), Colon, Str("A"), Comma,
      Str("professionalSummary"), Colon, Lit("[]"), Comma,
      Str("employmentHistory"), Colon, Lit("[]"), RBrace>>

ArgumentTexts ==
    { FullArguments,                                        \* the schema's shape
      <<LBrace, Str("name"), Colon, Str("A"), RBrace>>,     \* required keys missing
      <<LBrace, RBrace>>,                                   \* {}
      <<Lit("[]")>>,                                        \* valid JSON, not an object
      SubSeq(FullArguments, 1, 8),                          \* cut off by max_tokens
      <<Word("Sorry")>>,                                    \* free text
      <<>> }                                                \* empty string

NoResponse == [kind |-> "none", arguments |-> <<>>]
ServiceFailure == [kind |-> "raise", arguments |-> <<>>]
NoToolCall == [kind |-> "no_tool_call", arguments |-> <<>>]
ToolCall(args) == [kind |-> "tool_call", arguments |-> args]

ServiceOutcomes ==
    {ServiceFailure, NoToolCall} \cup {ToolCall(a) : a \in ArgumentTexts}

--------------------------------------------------------------------------
(* The input text: a sequence of lines, each a bold heading or plain text. *)

Bold(h) == [bold |-> TRUE, s |-> h]
Plain(b) == [bold |-> FALSE, s |-> b]

Lines == {Bold("Experience"), Bold("Education"), Plain("Job A")}

RECURSIVE SeqsUpTo(_, _)
SeqsUpTo(S, n) ==
    IF n = 0 THEN {<<>>}
    ELSE LET shorter == SeqsUpTo(S, n - 1) IN
         shorter \cup {Append(q, x) : q \in shorter, x \in S}

Texts == SeqsUpTo(Lines, MaxLines)

RenderLine(l) == IF l.bold THEN <<"**", l.s, "**", "\n">> ELSE <<l.s, "\n">>

RECURSIVE RenderText(_)
RenderText(lines) ==
    IF lines = <<>> THEN <<>>
    ELSE RenderLine(Head(lines)) \o RenderText(Tail(lines))

(* TextChunker. Bold lines open a section; text before the first heading   *)
(* goes to an implicit leading section, so a text without headings is one  *)
(* section spanning the whole text. Headings are not deduplicated. It is a *)
(* pure transform and returns for every text.                              *)
RECURSIVE ChunkLines(_, _)
ChunkLines(lines, acc) ==
    IF lines = <<>> THEN acc
    ELSE LET l == Head(lines) IN
         IF l.bold
         THEN ChunkLines(Tail(lines), Append(acc, [heading |-> l.s, body |-> <<>>]))
         ELSE IF acc = <<>>
         THEN ChunkLines(Tail(lines), <<[heading |-> "", body |-> <<l.s>>]>>)
         ELSE LET n == Len(acc) IN
              ChunkLines(Tail(lines),
                  [acc EXCEPT ![n] = [heading |-> acc[n].heading,
                                      body |-> Append(acc[n].body, l.s)]])

\* a chunker that raises on a text without headings
chunk_resume_from_bold_headings_raises(lines) ==
    IF \E i \in 1..Len(lines) : lines[i].bold
    THEN [outcome |-> "return", value |-> ChunkLines(lines, <<>>)]
    ELSE [outcome |-> "raise", value |-> <<>>]

chunk_resume_from_bold_headings(lines) ==
    LET secs == ChunkLines(lines, <<>>) IN
    [outcome |-> "return",
     value |-> IF secs = <<>> THEN <<[heading |-> "", body |-> <<>>]>> ELSE secs]

--------------------------------------------------------------------------
(* add_prompt_variation: the clock and the random draws are inputs.        *)

DigitChars == <<"0", "1", "2", "3", "4", "5", "6", "7", "8", "9">>

RECURSIVE Digits(_)
Digits(n) ==
    IF n < 10 THEN <<DigitChars[n + 1]>>
    ELSE Digits(n \div 10) \o <<DigitChars[(n % 10) + 1]>>

\* int(time.time() * 1000), two consecutive milliseconds
ClockValues == {9, 10}

\* random.choices('abcdefghijklmnopqrstuvwxyz0123456789', k=13): a letter and
\* a digit of the alphabet, IdLen draws
IdAlphabet == {"a", "0"}

RECURSIVE SeqsOfLen(_, _)
SeqsOfLen(S, n) ==
    IF n = 0 THEN {<<>>}
    ELSE {Append(q, x) : q \in SeqsOfLen(S, n - 1), x \in S}

RandomIds == SeqsOfLen(IdAlphabet, IdLen)

\* random.randint(100000, 999999): the two ends of the range
BypassIds == {100000, 999999}

session_id_no_suffix(timestamp, random_id) ==
    <<"CACHE_BYPASS_">> \o Digits(timestamp) \o <<"_">>

session_id(timestamp, random_id) ==
    <<"CACHE_BYPASS_">> \o Digits(timestamp) \o <<"_">> \o random_id

cache_breaker(timestamp, random_id, now, bypass) ==
    <<"[Processing Session: ">> \o session_id(timestamp, random_id)
    \o <<"]\n[Analysis Timestamp: ">> \o Digits(now)
    \o <<"]\n[Cache Bypass ID: ">> \o Digits(bypass) \o <<"]\n\n">>

add_prompt_variation(base_prompt, timestamp, random_id, now, bypass) ==
    cache_breaker(timestamp, random_id, now, bypass) \o base_prompt

user_prompt(lines) ==
    <<"CRITICAL TASK: Parse the following resume text and extract EVERY SINGLE DETAIL without omission.\n\nResume text:\n">>
    \o RenderText(lines)

\* one call of add_prompt_variation, with what it drew
PromptCall(lines, timestamp, random_id, now, bypass) ==
    [timestamp |-> timestamp,
     random_id |-> random_id,
     session |-> session_id(timestamp, random_id),
     preamble |-> cache_breaker(timestamp, random_id, now, bypass),
     base |-> user_prompt(lines),
     prompt |-> add_prompt_variation(user_prompt(lines), timestamp, random_id,
                                     now, bypass)]

--------------------------------------------------------------------------
(* extract_data_from_text, from the service's answer on.                   *)

Return(val) == [outcome |-> "return", value |-> val, error |-> <<>>]
Raise(msg) == [outcome |-> "raise", value |-> Unbound, error |-> msg]

\* the broad handler falling back to the default instead of raising
extract_data_from_text_swallow(resp) ==
    IF resp.kind \in {"raise", "no_tool_call"}
    THEN Return(get_default_resume_structure)
    ELSE LET parsed_data == json_loads(resp.arguments) IN
         IF parsed_data.ok THEN Return(parsed_data.value)
         ELSE Return(get_default_resume_structure)

\* the JSONDecodeError handler re-raising instead of falling back
extract_data_from_text_strict(resp) ==
    IF resp.kind = "raise"
    THEN Raise(<<"Failed to extract data: ", "Connection error.">>)
    ELSE IF resp.kind = "no_tool_call"
    THEN Raise(<<"Failed to extract data: ", "'NoneType' object is not subscriptable">>)
    ELSE LET parsed_data == json_loads(resp.arguments) IN
         IF parsed_data.ok THEN Return(parsed_data.value)
         ELSE Raise(<<"Failed to extract data: ", "JSONDecodeError">>)

extract_data_from_text(resp) ==
    IF resp.kind = "raise"
    THEN \* create() raised: caught by "except Exception", re-raised
         Raise(<<"Failed to extract data: ", "Connection error.">>)
    ELSE IF resp.kind = "no_tool_call"
    THEN \* message.tool_calls is None: tool_calls[0] raises TypeError,
         \* caught by the same handler
         Raise(<<"Failed to extract data: ", "'NoneType' object is not subscriptable">>)
    ELSE LET parsed_data == json_loads(resp.arguments) IN
         IF parsed_data.ok THEN Return(parsed_data.value)
         ELSE Return(get_default_resume_structure)

--------------------------------------------------------------------------
(* The events of stream_resume_processing.                                 *)

ProgressEvent ==
    [type |-> "progress", message |-> <<"Analyzing resume structure...">>,
     progress |-> 10]

StrategyEvent ==
    [type |-> "processing_strategy", message |-> <<"Processing entire resume...">>,
     progress |-> 45]

FullResumeCompleteEvent ==
    [type |-> "full_resume_complete",
     message |-> <<"Resume processed successfully">>,
     progress |-> 90,
     tokenUsage |-> [promptTokens |-> 0, completionTokens |-> 0,
                     totalTokens |-> 0, cost |-> 0]]

ErrorEvent_failed(e) ==
    [type |-> "failed", message |-> <<"Processing failed: ">> \o e]

ErrorEvent(e) ==
    [type |-> "error", message |-> <<"Processing failed: ">> \o e]

FinalDataEvent_early(data) ==
    [type |-> "final_data", data |-> data,
     message |-> <<"Final resume data ready">>, progress |-> 89]

FinalDataEvent_default(data) ==
    [type |-> "final_data", data |-> get_default_resume_structure,
     message |-> <<"Final resume data ready">>, progress |-> 98]

FinalDataEvent(data) ==
    [type |-> "final_data", data |-> data,
     message |-> <<"Final resume data ready">>, progress |-> 98]

CompleteEvent ==
    [type |-> "complete",
     message |-> <<"Resume processing completed successfully!">>,
     progress |-> 100]

OuterErrorEvent(e) ==
    [type |-> "error", message |-> <<"Processing error: ">> \o e]

--------------------------------------------------------------------------
(* generate_stream: one frame per chunk, then the sentinel.                *)

json_dumps(chunk) == [kind |-> "json", obj |-> chunk]

Frame(chunk) == [prefix |-> "data: ", body |-> json_dumps(chunk), suffix |-> "\n\n"]

Sentinel == [prefix |-> "data: ", body |-> [kind |-> "literal", obj |-> "[DONE]"],
             suffix |-> "\n\n"]

\* async for chunk in stream_resume_processing(...): yield the chunk's frame
Deliver_twice(fs, chunk) == Append(Append(fs, Frame(chunk)), Frame(chunk))

Deliver(fs, chunk) == Append(fs, Frame(chunk))

--------------------------------------------------------------------------
(* The run.                                                                *)
(*   pc : "start", "y_progress", "y_strategy", "await_create", "y_full",  *)
(*        "y_error", "y_final", "y_complete", "y_outer_error" (suspended   *)
(*        at that yield or await), "done" (the generator returned),        *)
(*        "closed" (GeneratorExit or CancelledError went through it:       *)
(*        neither is an Exception, so no handler of the generator runs).   *)
(*   gpc: "created", "y_frame", "awaiting", "y_sentinel", "done", "closed" *)

\* no request at the endpoint
EndpointIdle ==
    /\ uploads = <<>>
    /\ tmp = <<>>
    /\ epc = <<>>
    /\ extracted_text = <<>>
    /\ http_status = <<>>
    /\ fileReads = <<>>
    /\ st = <<>>
    /\ heap = <<>>

Init ==
    /\ text \in Texts
    /\ pc = "start"
    /\ gpc = "created"
    /\ sections = <<>>
    /\ prompts = <<>>
    /\ svcCalls = 0
    /\ response = NoResponse
    /\ extracted = "pending"
    /\ full_resume_data = Unbound
    /\ events = <<>>
    /\ frames = <<>>
    /\ EndpointIdle

Emit(e) ==
    /\ events' = Append(events, e)
    /\ frames' = Deliver(frames, e)

\* first pull: the generator runs to its first yield
Pull_Start ==
    /\ pc = "start" /\ gpc = "created"
    /\ Emit(ProgressEvent)
    /\ pc' = "y_progress"
    /\ gpc' = "y_frame"
    /\ UNCHANGED <<text, sections, prompts, svcCalls, response, extracted,
                   full_resume_data>>
    /\ UNCHANGED endpointVars

\* resumed after progress(10): chunk the text, yield processing_strategy; an
\* exception of the chunker goes to the outer handler
Pull_Chunk ==
    /\ pc = "y_progress" /\ gpc = "y_frame"
    /\ LET r == chunk_resume_from_bold_headings(text) IN
       IF r.outcome = "return"
       THEN /\ sections' = r.value
            /\ Emit(StrategyEvent)
            /\ pc' = "y_strategy"
       ELSE /\ sections' = sections
            /\ Emit(OuterErrorEvent(<<"chunking failed">>))
            /\ pc' = "y_outer_error"
    /\ UNCHANGED <<text, gpc, prompts, svcCalls, response, extracted,
                   full_resume_data>>
    /\ UNCHANGED endpointVars

\* resumed after processing_strategy(45): extract_data_from_text builds the
\* prompt and awaits client.chat.completions.create
Pull_CallExtract ==
    /\ pc = "y_strategy" /\ gpc = "y_frame"
    /\ \E timestamp \in ClockValues, random_id \in RandomIds,
          now \in ClockValues, bypass \in BypassIds :
          /\ now >= timestamp
          /\ prompts' = Append(prompts,
                 PromptCall(text, timestamp, random_id, now, bypass))
    /\ svcCalls' = svcCalls + 1
    /\ pc' = "await_create"
    /\ gpc' = "awaiting"
    /\ UNCHANGED <<text, sections, response, extracted, full_resume_data,
                   events, frames>>
    /\ UNCHANGED endpointVars

\* a failed call answered by calling the service again
Extract_Raises_retry ==
    /\ pc = "await_create" /\ gpc = "awaiting"
    /\ \E resp \in ServiceOutcomes :
          /\ extract_data_from_text(resp).outcome = "raise"
          /\ response' = resp
          /\ IF svcCalls < 2
             THEN /\ svcCalls' = svcCalls + 1
                  /\ UNCHANGED <<pc, gpc, extracted, events, frames>>
             ELSE /\ extracted' = "raised"
                  /\ Emit(ErrorEvent(extract_data_from_text(resp).error))
                  /\ pc' = "y_error"
                  /\ gpc' = "y_frame"
                  /\ UNCHANGED svcCalls
    /\ UNCHANGED <<text, sections, prompts, full_resume_data>>
    /\ UNCHANGED endpointVars

\* the service answered and extract_data_from_text raised: the inner handler
\* yields the error event
Extract_Raises ==
    /\ pc = "await_create" /\ gpc = "awaiting"
    /\ \E resp \in ServiceOutcomes :
          /\ extract_data_from_text(resp).outcome = "raise"
          /\ response' = resp
          /\ extracted' = "raised"
          /\ Emit(ErrorEvent(extract_data_from_text(resp).error))
    /\ pc' = "y_error"
    /\ gpc' = "y_frame"
    /\ UNCHANGED <<text, sections, prompts, svcCalls, full_resume_data>>
    /\ UNCHANGED endpointVars

\* the service answered and extract_data_from_text returned: yield
\* full_resume_complete(90)
Extract_Returns ==
    /\ pc = "await_create" /\ gpc = "awaiting"
    /\ \E resp \in ServiceOutcomes :
          /\ extract_data_from_text(resp).outcome = "return"
          /\ response' = resp
          /\ extracted' = "returned"
          /\ full_resume_data' = extract_data_from_text(resp).value
    /\ Emit(FullResumeCompleteEvent)
    /\ pc' = "y_full"
    /\ gpc' = "y_frame"
    /\ UNCHANGED <<text, sections, prompts, svcCalls>>
    /\ UNCHANGED endpointVars

\* the final_data yield left out
Pull_FinalData_skip ==
    /\ pc = "y_full" /\ gpc = "y_frame"
    /\ Emit(CompleteEvent)
    /\ pc' = "y_complete"
    /\ UNCHANGED <<text, gpc, sections, prompts, svcCalls, response, extracted,
                   full_resume_data>>
    /\ UNCHANGED endpointVars

\* resumed after full_resume_complete: yield final_data(98)
Pull_FinalData ==
    /\ pc = "y_full" /\ gpc = "y_frame"
    /\ Emit(FinalDataEvent(full_resume_data))
    /\ pc' = "y_final"
    /\ UNCHANGED <<text, gpc, sections, prompts, svcCalls, response, extracted,
                   full_resume_data>>
    /\ UNCHANGED endpointVars

\* the last stage failing into the outer handler
Pull_Complete_error ==
    /\ pc = "y_final" /\ gpc = "y_frame"
    /\ Emit(OuterErrorEvent(<<"final stage failed">>))
    /\ pc' = "y_outer_error"
    /\ UNCHANGED <<text, gpc, sections, prompts, svcCalls, response, extracted,
                   full_resume_data>>
    /\ UNCHANGED endpointVars

\* resumed after final_data: yield complete(100)
Pull_Complete ==
    /\ pc = "y_final" /\ gpc = "y_frame"
    /\ Emit(CompleteEvent)
    /\ pc' = "y_complete"
    /\ UNCHANGED <<text, gpc, sections, prompts, svcCalls, response, extracted,
                   full_resume_data>>
    /\ UNCHANGED endpointVars

\* the generator is exhausted: generate_stream leaves its loop and yields
\* the sentinel
EndOfStream ==
    /\ pc' = "done"
    /\ frames' = Append(frames, Sentinel)
    /\ gpc' = "y_sentinel"
    /\ UNCHANGED <<text, sections, prompts, svcCalls, response, extracted,
                   full_resume_data, events>>
    /\ UNCHANGED endpointVars

\* the inner handler without its return: the generator goes on to final_data,
\* full_resume_data is unbound, and the outer handler yields a second error
Pull_AfterError_fallthrough ==
    /\ pc = "y_error" /\ gpc = "y_frame"
    /\ Emit(OuterErrorEvent(<<"local variable 'full_resume_data' referenced before assignment">>))
    /\ pc' = "y_outer_error"
    /\ UNCHANGED <<text, gpc, sections, prompts, svcCalls, response, extracted,
                   full_resume_data>>
    /\ UNCHANGED endpointVars

\* resumed after the inner handler's error event: return
Pull_AfterError ==
    /\ pc = "y_error" /\ gpc = "y_frame"
    /\ EndOfStream

\* resumed after complete(100), or after the outer handler's error event:
\* the generator runs off its end
Pull_AfterComplete ==
    /\ pc \in {"y_complete", "y_outer_error"} /\ gpc = "y_frame"
    /\ EndOfStream

\* resumed after the sentinel: generate_stream is exhausted
Pull_AfterSentinel ==
    /\ gpc = "y_sentinel"
    /\ gpc' = "done"
    /\ UNCHANGED <<text, pc, sections, prompts, svcCalls, response, extracted,
                   full_resume_data, events, frames>>
    /\ UNCHANGED endpointVars

\* the consumer stops reading (client disconnect, task cancelled): the
\* generators are closed where they are suspended
Disconnect ==
    /\ gpc \in {"y_frame", "awaiting", "y_sentinel"}
    /\ gpc' = "closed"
    /\ pc' = IF pc = "done" THEN "done" ELSE "closed"
    /\ UNCHANGED <<text, sections, prompts, svcCalls, response, extracted,
                   full_resume_data, events, frames>>
    /\ UNCHANGED endpointVars

Next ==
    \/ Pull_Start
    \/ Pull_Chunk
    \/ Pull_CallExtract
    \/ Extract_Raises
    \/ Extract_Returns
    \/ Pull_FinalData
    \/ Pull_Complete
    \/ Pull_AfterError
    \/ Pull_AfterComplete
    \/ Pull_AfterSentinel
    \/ Disconnect

Spec == Init /\ [][Next]_vars

\* the consumer keeps reading: a pull that stays possible is made
SpecLive == Spec /\ WF_vars(Pull_FinalData) /\ WF_vars(Pull_Complete)

--------------------------------------------------------------------------
(* The CacheBuster alone: successive calls of add_prompt_variation on the *)
(* same prompt text.                                                       *)

InitCB ==
    /\ Init
    /\ text \in {<<>>, <<Plain("Job A")>>}

CacheBusterCall ==
    /\ Len(prompts) < MaxCalls
    /\ \E timestamp \in ClockValues, random_id \in RandomIds,
          now \in ClockValues, bypass \in BypassIds :
          /\ now >= timestamp
          /\ prompts' = Append(prompts,
                 PromptCall(text, timestamp, random_id, now, bypass))
    /\ UNCHANGED <<text, pc, gpc, sections, svcCalls, response, extracted,
                   full_resume_data, events, frames>>
    /\ UNCHANGED endpointVars

NextCB == CacheBusterCall

SpecCB == InitCB /\ [][NextCB]_vars

--------------------------------------------------------------------------
(* The endpoint, stream_resume_processing_endpoint, serving several        *)
(* requests on one event loop. A handler runs without interruption between *)
(* its suspension points: the await on file.read(), and, once the          *)
(* StreamingResponse is returned, the suspension points of its stream.     *)
(* Each request's stream is the run above, kept in st[r]; the prompt and   *)
(* its draws are left to Pull_CallExtract.                                 *)

Requests == 1..NumRequests

\* an upload's content: what the document holds and whether
\* extract_text_from_file can decode it
Document(r) == [readable |-> TRUE, body |-> [i \in 1..r |-> Plain("Job A")]]
Corrupt(r) == [readable |-> FALSE, body |-> [i \in 1..r |-> Plain("Job A")]]

\* every upload carries the same filename: the requests share the path
Filenames == {"cv.pdf"}

Uploads(r) ==
    {[filename |-> f, content |-> c] :
        f \in Filenames, c \in {Document(r), Corrupt(r)}}

\* text extraction, (file) -> plain text: it returns the text of a document
\* it can decode and raises on one it cannot
extract_text_from_file(file) ==
    IF file.content.readable
    THEN [outcome |-> "return", value |-> file.content.body]
    ELSE [outcome |-> "raise", value |-> <<>>]

temp_file_path(filename) == <<"/tmp/", filename>>

DictDel(items, k) == [x \in (DOMAIN items) \ {k} |-> items[x]]

\* open(temp_file_path, "wb") and write(content)
WriteFile(files, path, r, content) ==
    DictPut(files, path, [writer |-> r, content |-> content])

\* os.unlink(temp_file_path); a failure is logged and swallowed
Unlink(files, path) == DictDel(files, path)

\* object identities: a dict display and json.loads build a new object on
\* every call
NoRef == [site |-> "none", call |-> 0]

DefaultRef_shared(r) == [site |-> "default", call |-> 0]

DefaultRef(r) == [site |-> "default", call |-> r]

LoadsRef(r) == [site |-> "loads", call |-> r]

Alloc(h, ref, val) == IF ref \in DOMAIN h THEN h ELSE DictPut(h, ref, val)

EndpointOutcomes ==
    {ServiceFailure, ToolCall(FullArguments), ToolCall(SubSeq(FullArguments, 1, 8))}

NewStream ==
    [pc |-> "start", gpc |-> "created", response |-> NoResponse,
     extracted |-> "pending", data |-> NoRef, calls |-> 0,
     events |-> <<>>, frames |-> <<>>]

EmitIn(s, e) ==
    [s EXCEPT !.events = Append(@, e), !.frames = Deliver(@, e)]

RunIdle ==
    /\ text = <<>>
    /\ pc = "start"
    /\ gpc = "created"
    /\ sections = <<>>
    /\ prompts = <<>>
    /\ svcCalls = 0
    /\ response = NoResponse
    /\ extracted = "pending"
    /\ full_resume_data = Unbound
    /\ events = <<>>
    /\ frames = <<>>

InitEP ==
    /\ RunIdle
    /\ uploads \in {u \in [Requests -> UNION {Uploads(r) : r \in Requests}] :
                       \A r \in Requests : u[r] \in Uploads(r)}
    /\ tmp = <<>>
    /\ epc = [r \in Requests |-> "received"]
    /\ extracted_text = [r \in Requests |-> <<>>]
    /\ http_status = [r \in Requests |-> 0]
    /\ fileReads = [r \in Requests |-> <<>>]
    /\ st = [r \in Requests |-> NewStream]
    /\ heap = <<>>

RunFrame ==
    UNCHANGED <<text, pc, gpc, sections, prompts, svcCalls, response, extracted,
                full_resume_data, events, frames>>

\* the handler starts and suspends at "await file.read()"
Endpoint_Read(r) ==
    /\ epc[r] = "received"
    /\ epc' = [epc EXCEPT ![r] = "reading"]
    /\ UNCHANGED <<uploads, tmp, extracted_text, http_status, fileReads, st, heap>>
    /\ RunFrame

\* text extraction made awaitable: the handler suspends between writing the
\* file and extracting from it
Endpoint_Handle_async(r) ==
    LET path == temp_file_path(uploads[r].filename) IN
    \/ /\ epc[r] = "reading"
       /\ tmp' = WriteFile(tmp, path, r, uploads[r].content)
       /\ epc' = [epc EXCEPT ![r] = "extracting"]
       /\ UNCHANGED <<uploads, extracted_text, http_status, fileReads, st, heap>>
       /\ RunFrame
    \/ /\ epc[r] = "extracting"
       /\ tmp' = Unlink(tmp, path)
       /\ IF path \in DOMAIN tmp /\ extract_text_from_file(tmp[path]).outcome = "return"
          THEN /\ fileReads' = [fileReads EXCEPT ![r] = Append(@, tmp[path].writer)]
               /\ extracted_text' =
                      [extracted_text EXCEPT ![r] = extract_text_from_file(tmp[path]).value]
               /\ http_status' = [http_status EXCEPT ![r] = 200]
               /\ epc' = [epc EXCEPT ![r] = "responded"]
          ELSE /\ fileReads' = fileReads
               /\ extracted_text' = extracted_text
               /\ http_status' = [http_status EXCEPT ![r] = 500]
               /\ epc' = [epc EXCEPT ![r] = "failed"]
       /\ UNCHANGED <<uploads, st, heap>>
       /\ RunFrame

\* the temp file removed on the success path only
Endpoint_Handle_leak(r) ==
    /\ epc[r] = "reading"
    /\ LET path == temp_file_path(uploads[r].filename)
           written == WriteFile(tmp, path, r, uploads[r].content)
           res == extract_text_from_file(written[path])
       IN  /\ fileReads' = [fileReads EXCEPT ![r] = Append(@, written[path].writer)]
           /\ IF res.outcome = "return"
              THEN /\ tmp' = Unlink(written, path)
                   /\ extracted_text' = [extracted_text EXCEPT ![r] = res.value]
                   /\ http_status' = [http_status EXCEPT ![r] = 200]
                   /\ epc' = [epc EXCEPT ![r] = "responded"]
              ELSE /\ tmp' = written
                   /\ extracted_text' = extracted_text
                   /\ http_status' = [http_status EXCEPT ![r] = 500]
                   /\ epc' = [epc EXCEPT ![r] = "failed"]
    /\ UNCHANGED <<uploads, st, heap>>
    /\ RunFrame

\* resumed with the upload's content: write the temp file, extract the text
\* from it, build the StreamingResponse over the extracted text (or fail),
\* unlink the file in the finally clause, and return the response or raise
\* HTTPException(500)
Endpoint_Handle(r) ==
    /\ epc[r] = "reading"
    /\ LET path == temp_file_path(uploads[r].filename)
           written == WriteFile(tmp, path, r, uploads[r].content)
           res == extract_text_from_file(written[path])
       IN  /\ fileReads' = [fileReads EXCEPT ![r] = Append(@, written[path].writer)]
           /\ tmp' = Unlink(written, path)
           /\ IF res.outcome = "return"
              THEN /\ extracted_text' = [extracted_text EXCEPT ![r] = res.value]
                   /\ http_status' = [http_status EXCEPT ![r] = 200]
                   /\ epc' = [epc EXCEPT ![r] = "responded"]
              ELSE /\ extracted_text' = extracted_text
                   /\ http_status' = [http_status EXCEPT ![r] = 500]
                   /\ epc' = [epc EXCEPT ![r] = "failed"]
    /\ UNCHANGED <<uploads, st, heap>>
    /\ RunFrame

Streaming(r, at, gat) == epc[r] = "responded" /\ st[r].pc = at /\ st[r].gpc = gat

EndpointFrame ==
    /\ UNCHANGED <<uploads, tmp, epc, extracted_text, http_status, fileReads>>
    /\ RunFrame

\* the response writer's first pull on request r's stream
Req_Start(r) ==
    /\ Streaming(r, "start", "created")
    /\ st' = [st EXCEPT ![r] =
                 [EmitIn(@, ProgressEvent) EXCEPT !.pc = "y_progress", !.gpc = "y_frame"]]
    /\ UNCHANGED heap
    /\ EndpointFrame

Req_Chunk(r) ==
    /\ Streaming(r, "y_progress", "y_frame")
    /\ st' = [st EXCEPT ![r] =
                 IF chunk_resume_from_bold_headings(extracted_text[r]).outcome = "return"
                 THEN [EmitIn(@, StrategyEvent) EXCEPT !.pc = "y_strategy"]
                 ELSE [EmitIn(@, OuterErrorEvent(<<"chunking failed">>))
                          EXCEPT !.pc = "y_outer_error"]]
    /\ UNCHANGED heap
    /\ EndpointFrame

Req_CallExtract(r) ==
    /\ Streaming(r, "y_strategy", "y_frame")
    /\ st' = [st EXCEPT ![r] =
                 [@ EXCEPT !.pc = "await_create", !.gpc = "awaiting",
                           !.calls = @ + 1]]
    /\ UNCHANGED heap
    /\ EndpointFrame

Req_ExtractRaises(r) ==
    /\ Streaming(r, "await_create", "awaiting")
    /\ \E resp \in EndpointOutcomes :
          /\ extract_data_from_text(resp).outcome = "raise"
          /\ st' = [st EXCEPT ![r] =
                [EmitIn(@, ErrorEvent(extract_data_from_text(resp).error))
                    EXCEPT !.response = resp, !.extracted = "raised",
                           !.pc = "y_error", !.gpc = "y_frame"]]
    /\ UNCHANGED heap
    /\ EndpointFrame

\* the value returned is a new object: the parsed arguments, or the dict
\* built by get_default_resume_structure
Req_ExtractReturns(r) ==
    /\ Streaming(r, "await_create", "awaiting")
    /\ \E resp \in EndpointOutcomes :
          /\ extract_data_from_text(resp).outcome = "return"
          /\ LET ref == IF json_loads(resp.arguments).ok THEN LoadsRef(r)
                        ELSE DefaultRef(r) IN
             /\ heap' = Alloc(heap, ref, extract_data_from_text(resp).value)
             /\ st' = [st EXCEPT ![r] =
                   [EmitIn(@, FullResumeCompleteEvent)
                       EXCEPT !.response = resp, !.extracted = "returned",
                              !.data = ref, !.pc = "y_full", !.gpc = "y_frame"]]
    /\ EndpointFrame

Req_FinalData(r) ==
    /\ Streaming(r, "y_full", "y_frame")
    /\ st' = [st EXCEPT ![r] =
                 [EmitIn(@, FinalDataEvent(heap[@.data])) EXCEPT !.pc = "y_final"]]
    /\ UNCHANGED heap
    /\ EndpointFrame

Req_Complete(r) ==
    /\ Streaming(r, "y_final", "y_frame")
    /\ st' = [st EXCEPT ![r] = [EmitIn(@, CompleteEvent) EXCEPT !.pc = "y_complete"]]
    /\ UNCHANGED heap
    /\ EndpointFrame

\* the generator returns (after its error event) or runs off its end:
\* generate_stream yields the sentinel
Req_EndOfStream(r) ==
    /\ epc[r] = "responded"
    /\ st[r].pc \in {"y_error", "y_complete", "y_outer_error"}
    /\ st[r].gpc = "y_frame"
    /\ st' = [st EXCEPT ![r] =
                 [@ EXCEPT !.pc = "done", !.gpc = "y_sentinel",
                           !.frames = Append(@, Sentinel)]]
    /\ UNCHANGED heap
    /\ EndpointFrame

Req_AfterSentinel(r) ==
    /\ epc[r] = "responded"
    /\ st[r].gpc = "y_sentinel"
    /\ st' = [st EXCEPT ![r] = [@ EXCEPT !.gpc = "done"]]
    /\ UNCHANGED heap
    /\ EndpointFrame

Req_Disconnect(r) ==
    /\ epc[r] = "responded"
    /\ st[r].gpc \in {"y_frame", "awaiting", "y_sentinel"}
    /\ st' = [st EXCEPT ![r] =
                 [@ EXCEPT !.gpc = "closed",
                           !.pc = IF @ = "done" THEN "done" ELSE "closed"]]
    /\ UNCHANGED heap
    /\ EndpointFrame

\* a consumer holding the final_data event changes the dict it carries
Consumer_Mutates(r) ==
    /\ Streaming(r, "y_final", "y_frame")
    /\ heap[st[r].data].v["name"] # PyStr("edited")
    /\ heap' = [heap EXCEPT ![st[r].data] =
                   PyDict(DictPut(@.v, "name", PyStr("edited")))]
    /\ UNCHANGED st
    /\ EndpointFrame

NextEP ==
    \E r \in Requests :
        \/ Endpoint_Read(r)
        \/ Endpoint_Handle(r)
        \/ Req_Start(r)
        \/ Req_Chunk(r)
        \/ Req_CallExtract(r)
        \/ Req_ExtractRaises(r)
        \/ Req_ExtractReturns(r)
        \/ Req_FinalData(r)
        \/ Req_Complete(r)
        \/ Req_EndOfStream(r)
        \/ Req_AfterSentinel(r)
        \/ Req_Disconnect(r)
        \/ Consumer_Mutates(r)

SpecEP == InitEP /\ [][NextEP]_vars

--------------------------------------------------------------------------
(* Properties                                                              *)

Types(es) == [i \in 1..Len(es) |-> es[i].type]

HasProgress(e) == "progress" \in DOMAIN e

IsTerminal(e) == e.type \in {"complete", "error"}

TerminalCount == Cardinality({i \in 1..Len(events) : IsTerminal(events[i])})

IsPrefix(p, q) == Len(p) <= Len(q) /\ \A i \in 1..Len(p) : p[i] = q[i]

RunOver == pc \in {"done", "closed"}

SuccessTypes ==
    <<"progress", "processing_strategy", "full_resume_complete", "final_data",
      "complete">>

SuccessProgress == <<10, 45, 90, 98, 100>>

FailureTypes == <<"progress", "processing_strategy", "error">>

Malformed(resp) == resp.kind = "tool_call" /\ ~json_loads(resp.arguments).ok

WellShaped(val) == val.t = "dict" /\ RequiredKeys \subseteq DOMAIN val.v

\* C1 as stated: every run that is over, however it ended (read to the end or
\* abandoned by the consumer), has emitted exactly one terminal event, complete
\* with progress 100 or error, as its last event.
C1_OneTerminalWhateverConsumer ==
    RunOver =>
        /\ TerminalCount = 1
        /\ IsTerminal(events[Len(events)])

\* C1 amended: a run never emits more than one terminal event and nothing
\* after it, complete carries progress 100, and a run read to the end has
\* emitted exactly one terminal event.
C1_AtMostOneTerminal_OneWhenReadToEnd ==
    /\ TerminalCount <= 1
    /\ \A i \in 1..Len(events) :
          /\ IsTerminal(events[i]) => i = Len(events)
          /\ events[i].type = "complete" => events[i].progress = 100
    /\ pc = "done" => TerminalCount = 1

C1_Witness ==
    /\ pc = "done"
    /\ TerminalCount = 1
    /\ events[Len(events)].type = "error"

\* C2: the progress values of the events of a run, in emission order, never
\* decrease and lie in 0..100 (the error event carries no progress).
C2_ProgressNonDecreasing ==
    \A j \in 1..Len(events) :
        HasProgress(events[j]) =>
            /\ events[j].progress \in 0..100
            /\ \A i \in 1..(j - 1) :
                  HasProgress(events[i]) => events[i].progress <= events[j].progress

C2_Witness ==
    /\ Len(events) = 5
    /\ events[5].progress = 100

\* C3: once the completion-service call has raised, the events of the run are
\* exactly progress, processing_strategy, error, and stay so.
C3_ServiceFailureSequence ==
    response = ServiceFailure =>
        /\ Types(events) = FailureTypes
        /\ events[1].progress = 10
        /\ events[2].progress = 45
        /\ extracted = "raised"

C3_Witness ==
    /\ response = ServiceFailure
    /\ pc = "done"
    /\ Len(events) = 3

\* C4: when the tool call's arguments are not valid JSON the run is no
\* failure: extract returns the default structure, no error event is ever
\* emitted, the events are full_resume_complete, final_data carrying the
\* default (every required key present and empty), complete.
C4_MalformedFallsBackToDefault ==
    Malformed(response) =>
        /\ extracted = "returned"
        /\ full_resume_data = get_default_resume_structure
        /\ \A k \in RequiredKeys :
              /\ k \in DOMAIN full_resume_data.v
              /\ full_resume_data.v[k] \in {PyStr(""), PyList}
        /\ IsPrefix(Types(events), SuccessTypes)
        /\ Len(events) >= 3
        /\ Len(events) >= 4 => events[4].data = get_default_resume_structure
        /\ pc = "done" => Types(events) = SuccessTypes

C4_Witness ==
    /\ Malformed(response)
    /\ pc = "done"
    /\ events[4].data = get_default_resume_structure

\* C5: whatever the service answers, a value returned by
\* extract_data_from_text is an object with all the required keys.
C5_ExtractReturnsWellShaped ==
    extracted = "returned" => WellShaped(full_resume_data)

\* C6: every answer of the service that does not parse into the
\* StructuredResume shape (invalid JSON, a shape mismatch, no tool call)
\* makes extract_data_from_text return the default structure, and the run
\* emits no error event.
C6_UnparseableIsNonFatal ==
    (/\ response.kind \in {"tool_call", "no_tool_call"}
     /\ \/ response.kind = "no_tool_call"
        \/ Malformed(response)
        \/ ~WellShaped(json_loads(response.arguments).value))
    =>  /\ extracted = "returned"
        /\ full_resume_data = get_default_resume_structure
        /\ \A i \in 1..Len(events) : events[i].type # "error"

\* C7: in a run in which extract_data_from_text returned, the events are, in
\* order, progress(10), processing_strategy(45), full_resume_complete(90),
\* final_data(98), complete(100) and nothing else; the call is made with
\* exactly the first two emitted, and full_resume_complete follows its return.
C7_SuccessSequence ==
    /\ pc = "await_create" => Types(events) = <<"progress", "processing_strategy">>
    /\ extracted = "returned" =>
          /\ IsPrefix(Types(events), SuccessTypes)
          /\ \A i \in 1..Len(events) : events[i].progress = SuccessProgress[i]
          /\ Len(events) >= 3
          /\ pc = "done" => Len(events) = 5

C7_Witness ==
    /\ extracted = "returned"
    /\ pc = "done"
    /\ Types(events) = SuccessTypes

IsSentinel(f) == f.body.kind = "literal"

SentinelCount == Cardinality({i \in 1..Len(frames) : IsSentinel(frames[i])})

\* C8: the stream carries one frame per event, in emission order, none
\* dropped, duplicated or reordered; the [DONE] sentinel appears at most once,
\* only after the terminal event and as the last frame, and a stream read to
\* its end is the events' frames followed by the sentinel.
C8_FramesFollowEvents ==
    /\ Len(frames) = Len(events) + SentinelCount
    /\ \A i \in 1..Len(events) : frames[i] = Frame(events[i])
    /\ SentinelCount <= 1
    /\ SentinelCount = 1 =>
          /\ frames[Len(frames)] = Sentinel
          /\ IsTerminal(events[Len(events)])
    /\ gpc = "done" => SentinelCount = 1

C8_Witness ==
    /\ gpc = "done"
    /\ Len(frames) = 6
    /\ frames[6] = Sentinel

\* C9: a run calls the completion service at most once; a failed call is not
\* repeated and leaves extract_data_from_text as the fatal
\* "Failed to extract data" error, reported by the error event.
C9_SingleAttempt ==
    /\ svcCalls <= 1
    /\ response = ServiceFailure =>
          /\ svcCalls = 1
          /\ extracted = "raised"
          /\ events[Len(events)].type = "error"
          /\ events[Len(events)].message[2] = "Failed to extract data: "

C9_Witness ==
    /\ response = ServiceFailure
    /\ svcCalls = 1
    /\ pc = "done"

\* C10 as stated: any two calls of add_prompt_variation give different
\* session identifiers and different preambles.
C10_SessionsAlwaysDiffer ==
    \A i, j \in 1..Len(prompts) :
        i < j => /\ prompts[i].session # prompts[j].session
                 /\ prompts[i].preamble # prompts[j].preamble

\* C10 amended: two calls give the same session identifier only when they
\* read the same millisecond and draw the same random suffix; calls that
\* differ in either give different session identifiers, preambles and
\* prompts, also on the same prompt text.
C10_SessionsDifferUnlessSameDraw ==
    \A i, j \in 1..Len(prompts) :
        (i < j /\ (\/ prompts[i].timestamp # prompts[j].timestamp
                   \/ prompts[i].random_id # prompts[j].random_id))
        =>  /\ prompts[i].session # prompts[j].session
            /\ prompts[i].preamble # prompts[j].preamble
            /\ prompts[i].prompt # prompts[j].prompt

C10_Witness ==
    /\ Len(prompts) = 2
    /\ prompts[1].timestamp = prompts[2].timestamp
    /\ prompts[1].base = prompts[2].base
    /\ prompts[1].random_id # prompts[2].random_id
    /\ prompts[1].session # prompts[2].session

EventTypes ==
    {"progress", "processing_strategy", "full_resume_complete", "final_data",
     "complete", "error"}

\* C12: every event emitted, on every path, has one of the six types.
C12_TypesInVocabulary ==
    \A i \in 1..Len(events) : events[i].type \in EventTypes

C12_Witness ==
    /\ pc = "done"
    /\ \E i \in 1..Len(events) : events[i].type = "error"

\* C13: final_data carries exactly the value extract_data_from_text returned
\* in this run, unchanged since the return, which is the default structure on
\* the fallback path; no other event has a data field.
C13_FinalDataIsExtractResult ==
    /\ extracted = "returned" =>
          full_resume_data = extract_data_from_text(response).value
    /\ \A i \in 1..Len(events) :
          /\ ("data" \in DOMAIN events[i]) <=> (events[i].type = "final_data")
          /\ events[i].type = "final_data" =>
                /\ events[i].data = extract_data_from_text(response).value
                /\ Malformed(response) =>
                      events[i].data = get_default_resume_structure

C13_Witness ==
    /\ Len(events) = 5
    /\ response = ToolCall(FullArguments)
    /\ events[4].data.v["name"] = PyStr("A")

\* C14: processing_strategy(45) is the second event of every run, whatever
\* the chunker made of the text, and an error event is only emitted in a run
\* that has already emitted processing_strategy.
C14_StrategyIsSecond ==
    /\ Len(events) >= 2 => events[2] = StrategyEvent
    /\ \A i \in 1..Len(events) :
          events[i].type = "error" =>
              /\ i > 2
              /\ events[2].type = "processing_strategy"

C14_Witness ==
    /\ text = <<Plain("Job A")>>
    /\ Len(events) = 3
    /\ events[3].type = "error"

FullEmitted == \E i \in 1..Len(events) : events[i].type = "full_resume_complete"

CompleteEmitted == \E i \in 1..Len(events) : events[i].type = "complete"

\* C16: no error event follows full_resume_complete; final_data comes only
\* right after full_resume_complete and complete only right after
\* final_data; and a run that has emitted full_resume_complete goes on to
\* emit final_data and complete unless its consumer stops reading.
C16_NoErrorAfterFull ==
    /\ [](\A i \in 1..Len(events) :
            /\ events[i].type = "error" =>
                  \A j \in 1..(i - 1) : events[j].type # "full_resume_complete"
            /\ events[i].type = "final_data" =>
                  i > 1 /\ events[i - 1].type = "full_resume_complete"
            /\ events[i].type = "complete" =>
                  i > 1 /\ events[i - 1].type = "final_data")
    /\ (FullEmitted ~> ((CompleteEmitted /\ events[Len(events) - 1].type = "final_data")
                        \/ pc = "closed"))

C16_Witness ==
    /\ FullEmitted
    /\ CompleteEmitted
    /\ pc = "done"

Responded(r) == epc[r] = "responded"

\* the events request r's stream has emitted are those its own service answer
\* gives: a prefix of the success or of the failure sequence
OwnEvents(r) ==
    LET s == st[r] IN
    /\ s.extracted = "pending" =>
          IsPrefix(Types(s.events), <<"progress", "processing_strategy">>)
    /\ s.extracted = "raised" =>
          /\ extract_data_from_text(s.response).outcome = "raise"
          /\ Types(s.events) = FailureTypes
    /\ s.extracted = "returned" =>
          /\ extract_data_from_text(s.response).outcome = "return"
          /\ IsPrefix(Types(s.events), SuccessTypes)
          /\ Len(s.events) >= 3

FinalDataOf(r) ==
    {st[r].events[i].data : i \in {j \in 1..Len(st[r].events) :
                                      st[r].events[j].type = "final_data"}}

\* C15: nothing is carried from one request to another: the objects handed
\* out by extract_data_from_text to different requests are different objects,
\* so the data a request emits is the value its own service answer gives, and
\* is the canonical default on the fallback path, also after a consumer of
\* another request has changed the default that request was given.
C15_NoStateAcrossRequests ==
    \A r \in Requests :
        /\ \A q \in Requests :
              (q # r /\ st[q].data # NoRef) => st[q].data # st[r].data
        /\ \A d \in FinalDataOf(r) :
              /\ d = extract_data_from_text(st[r].response).value
              /\ Malformed(st[r].response) => d = get_default_resume_structure

C15_Witness ==
    /\ Malformed(st[1].response)
    /\ heap[st[1].data] # get_default_resume_structure
    /\ Malformed(st[2].response)
    /\ st[2].pc = "done"
    /\ FinalDataOf(2) = {get_default_resume_structure}

==========================================================================
